---- MODULE Spec2Model ----
(***************************************************************************)
(* The bug reporting simulation of simmodel.py: one BugReportSource        *)
(* ("a_tester") activates BugReport processes that request, hold and       *)
(* release the developer Resource, under the SimPy event loop started by   *)
(* simulate(until=max_time).                                               *)
(*                                                                         *)
(* Simulated time is discretised to integers; the interarrival samples of  *)
(* expovariate (support [0, inf)) are drawn from InterarrivalTimes.        *)
(* One action is one iteration of the event loop: the next event notice is *)
(* taken from the event list, the process runs up to its next yield and    *)
(* the yielded command is dispatched.                                      *)
(***************************************************************************)
EXTENDS Integers, Sequences, FiniteSets

VARIABLES
    phase,         \* position of main: "Idle" (before simulate), "Running", "Completed"
    message,       \* the value simulate returns
    now,           \* the simulated clock, now()
    timestamps,    \* the event list: a set of event notices
    sortpr,        \* the event list's posting counter
    n,             \* free units of developer_resource
    activeQ,       \* processes holding a unit of developer_resource, in grant order
    waitQ,         \* processes queued on developer_resource
    key,           \* start_reporting: number of loop iterations started
    pc,            \* per process: where its generator is suspended
    bug_effort,    \* the bug_effort argument start_reporting passes to arrive
    arrival_time,  \* per report: the time printed by "arrived"
    ready_time,    \* per report: the time printed by "ready for fixing"
    fixed_time,    \* per report: the time printed by "got fixed"
    yielded,       \* per report: the resource commands it has yielded, in order
    requestLog,    \* reports in the order their request was dispatched
    grantLog,      \* reports in the order they were granted a unit
    trace,         \* the event notices processed so far, in order
    h_pc,              \* launch_simulation_parallel: where the caller is
    max_iterations,    \* launch_simulation_parallel: the replications asked for
    parallel_blocks,   \* launch_simulation_parallel: the number of workers
    worker_inputs,     \* per worker: the max_iterations of its worker_input
    worker_state,      \* per worker: "running", "returned" or "failed"
    replication_index, \* per worker: launch_simulation's loop variable
    lists,             \* per worker: launch_simulation's six accumulator lists
    finished,          \* workers in the order in which they returned
    worker_outputs,    \* the list pool.map returned
    consolidated,      \* number of worker outputs the consolidation loop has merged
    merged,            \* launch_simulation_parallel's six accumulator lists
    inputs,            \* reporters_config, bugs_by_priority, resolution_time_gen
    w_pc,              \* per worker: "loop" (top of an iteration) or "seeded"
    rng,               \* per worker: the state of numpy's random stream
    seeds,             \* per worker: number of np.random.seed() calls made
    started_on,        \* per worker: the stream state each run_model call started on
    monitors,          \* per worker: counter of the monitors run_model returned last
    resolved_in_run,   \* per worker: the reports each run_model call resolved itself
    recorded,          \* per worker: the count() read from the monitors, per replication
    config,        \* run_model: its arguments (stages, bandwidth, strategies)
    bug,           \* run_model, per report: reporter, true and reported priority
    sent,          \* run_model, per reporter: number of reports submitted
    inflated,      \* run_model, per reporter: reports submitted with a distorted priority
    gk_n,          \* run_model: free units of the gatekeeper resource
    gk_activeQ,    \* run_model: reports under review
    gk_waitQ,      \* run_model: reports queued for review
    consumed,      \* run_model: developer hours consumed so far
    late,          \* run_model: reports that requested a developer after exhaustion
    stageLog,      \* run_model, per report: the stages it entered and left, in order
    observations,  \* ContinuousEmpiricalDistribution: the observations given to __init__
    d_pc,          \* ContinuousEmpiricalDistribution: "new", "built" or "raised"
    raised,        \* ContinuousEmpiricalDistribution: the exception __init__ raised
    inverse_cdf,   \* ContinuousEmpiricalDistribution: the interpolator's x and y arrays
    draws,         \* generate: the calls made, each its rand_uniform and rand_variate
    strategy_list,          \* get_strategy_map: the strategies (names as character sequences)
    teams,                  \* get_strategy_map: the number of teams
    strategy_profiles,      \* get_strategy_map: list(itertools.product(...))
    strategy_maps,          \* get_strategy_map: the list built so far
    player_configuration,   \* configure_strategies_per_team: the list of reporter configurations
    strategy_map,           \* configure_strategies_per_team: team -> strategy
    config_index,           \* configure_strategies_per_team: configurations already visited
    original_configuration, \* player_configuration as passed in
    p_pc                    \* position of the caller of payoffgetter's functions

simVars == <<phase, message, now, timestamps, sortpr, n, activeQ, waitQ, key, pc,
             bug_effort, arrival_time, ready_time, fixed_time, yielded,
             requestLog, grantLog, trace>>

harnessVars == <<h_pc, max_iterations, parallel_blocks, worker_inputs,
                 worker_state, replication_index, lists, finished,
                 worker_outputs, consolidated, merged, inputs, w_pc, rng, seeds,
                 started_on, monitors, resolved_in_run, recorded>>

runVars == <<config, bug, sent, inflated, gk_n, gk_activeQ, gk_waitQ,
             consumed, late, stageLog>>

distVars == <<observations, d_pc, raised, inverse_cdf, draws>>

payoffVars == <<strategy_list, teams, strategy_profiles, strategy_maps,
                player_configuration, strategy_map, config_index,
                original_configuration, p_pc>>

libVars == <<distVars, payoffVars>>

vars == <<simVars, harnessVars, runVars, libVars>>

----------------------------------------------------------------------------
(* Program constants of main and start_reporting. *)

max_time == 400

report_number == 5

main_bug_effort == 10

start_reporting_bug_effort == 12

team_capacity == 1

(* Bounds of the model: the interarrival samples that are explored. *)

GapUnit == 6

MaxGapSteps == 2

LongGap == 388

InterarrivalTimes == {i * GapUnit : i \in 0..MaxGapSteps} \cup {LongGap}

----------------------------------------------------------------------------
(* Processes: the source and the reports Report-0 .. Report-(report_number-1), *)
(* numbered in creation order.                                               *)

a_tester == -1

Reports == 0..(report_number - 1)

Procs == {a_tester} \cup Reports

----------------------------------------------------------------------------
(* The event list. *)

(* Notices of one instant taken latest-posted first. *)
BeforeLifo(e, f) == e.at < f.at \/ (e.at = f.at /\ e.key > f.key)

(* e is taken from the event list before f: by time, then by posting key. *)
Before(e, f) == e.at < f.at \/ (e.at = f.at /\ e.key < f.key)

(* The notice for `who` at time `at`, posted when the counter was sp:     *)
(* prior notices go before every notice of that time, the others after.   *)
Notice(who, at, prior, sp) ==
    [at |-> at, key |-> IF prior THEN sp - 1 ELSE -(sp - 1), who |-> who,
     seq |-> -(sp - 1), prior |-> prior]

HasNext == timestamps # {}

NextEv == CHOOSE e \in timestamps : \A f \in timestamps \ {e} : Before(e, f)

(* A loop that does not look at the stop flag. *)
LoopingForever == TRUE

(* simulate's loop condition. *)
Looping == phase = "Running"

(* A horizon that excludes the instant until itself. *)
WithinHorizonStrict(e) == e.at < max_time

(* No horizon at all. *)
WithinHorizonNever(e) == TRUE

(* _nextev: a notice later than until is not processed. *)
WithinHorizon(e) == e.at <= max_time

(* The next event notice belongs to process p and is within the horizon. *)
TurnWhenFree(p) ==
    /\ Looping /\ HasNext /\ NextEv.who = p /\ WithinHorizon(NextEv)
    /\ (p = a_tester => n > 0)

Turn(p) == Looping /\ HasNext /\ NextEv.who = p /\ WithinHorizon(NextEv)

(* What every processed event does to the clock and the trace. *)
Taken ==
    /\ now' = NextEv.at
    /\ trace' = Append(trace, [at |-> NextEv.at, who |-> NextEv.who,
                               seq |-> NextEv.seq, prior |-> NextEv.prior,
                               popped |-> -sortpr])

----------------------------------------------------------------------------
(* The replication harness of simutils.py: its accumulator lists. *)

OutputKeys == {"completed_per_reporter", "completed_per_priority",
               "bugs_per_reporter", "reports_per_reporter",
               "resolved_per_reporter", "reported_per_priotity"}

EmptyLists == [k \in OutputKeys |-> <<>>]

(* The harness is not part of the run: main of simmodel.py does not use it. *)
HarnessOff ==
    /\ h_pc = "off"
    /\ max_iterations = 0
    /\ parallel_blocks = 0
    /\ worker_inputs = <<>>
    /\ worker_state = <<>>
    /\ replication_index = <<>>
    /\ lists = <<>>
    /\ finished = <<>>
    /\ worker_outputs = <<>>
    /\ consolidated = 0
    /\ merged = EmptyLists
    /\ inputs = <<>>
    /\ w_pc = <<>>
    /\ rng = <<>>
    /\ seeds = <<>>
    /\ started_on = <<>>
    /\ monitors = <<>>
    /\ resolved_in_run = <<>>
    /\ recorded = <<>>

(* run_model is not part of the run either. *)
RunOff ==
    /\ config = "none"
    /\ bug = <<>>
    /\ sent = <<>>
    /\ inflated = <<>>
    /\ gk_n = 0
    /\ gk_activeQ = <<>>
    /\ gk_waitQ = <<>>
    /\ consumed = 0
    /\ late = {}
    /\ stageLog = <<>>

(* No distribution is being built and no payoffgetter function is called. *)
DistOff ==
    /\ observations = <<>>
    /\ d_pc = "off"
    /\ raised = "none"
    /\ inverse_cdf = [x |-> <<>>, y |-> <<>>]
    /\ draws = <<>>

PayoffOff ==
    /\ strategy_list = <<>>
    /\ teams = 0
    /\ strategy_profiles = <<>>
    /\ strategy_maps = <<>>
    /\ player_configuration = <<>>
    /\ strategy_map = <<>>
    /\ config_index = 0
    /\ original_configuration = <<>>
    /\ p_pc = "off"

LibOff == DistOff /\ PayoffOff

----------------------------------------------------------------------------
SimInit ==
    /\ phase = "Idle"
    /\ message = "none"
    /\ now = 0
    /\ timestamps = {Notice(a_tester, 0, FALSE, 0)}
    /\ sortpr = -1
    /\ n = team_capacity
    /\ activeQ = <<>>
    /\ waitQ = <<>>
    /\ key = 0
    /\ pc = [p \in Procs |-> IF p = a_tester THEN "start" ELSE "unborn"]
    /\ bug_effort = start_reporting_bug_effort
    /\ arrival_time = [r \in Reports |-> -1]
    /\ ready_time = [r \in Reports |-> -1]
    /\ fixed_time = [r \in Reports |-> -1]
    /\ yielded = [r \in Reports |-> <<>>]
    /\ requestLog = <<>>
    /\ grantLog = <<>>
    /\ trace = <<>>

Init == SimInit /\ HarnessOff /\ RunOff /\ LibOff

----------------------------------------------------------------------------
(* The developer resource (capacity team_capacity, FIFO wait queue). *)

(* A request that is granted whatever the number of free units. *)
CanGrantAlways == TRUE

(* request: a unit is free. *)
CanGrant == n > 0

(* The wait queue's enter and leave, and the removal from the active queue. *)
EnterDropped(q, r) == q

Enter(q, r) == Append(q, r)

LeaveLast(q) == q[Len(q)]

Leave(q) == Head(q)

RemoveNothing(q, r) == q

Remove(q, r) == SelectSeq(q, LAMBDA x : x # r)

(* A hold that overruns the effort, and one that ignores the argument. *)
HoldUntilLate(t) == t + bug_effort + 1

HoldUntilLiteral(t) == t + start_reporting_bug_effort

HoldUntilMain(t) == t + main_bug_effort

(* hold: the time at which a hold of bug_effort starting at t ends. *)
HoldUntil(t) == t + bug_effort

Members(q) == {q[i] : i \in DOMAIN q}

(* release: a process is waiting for the unit. *)
HasWaitersNever == FALSE

HasWaiters == waitQ # <<>>

----------------------------------------------------------------------------
(* main: simulate(until=max_time) enters the event loop. *)
simulate ==
    /\ phase = "Idle"
    /\ HasNext
    /\ phase' = "Running"
    /\ UNCHANGED <<message, now, timestamps, sortpr, n, activeQ, waitQ, key, pc,
                   bug_effort, arrival_time, ready_time, fixed_time, yielded,
                   requestLog, grantLog, trace>>
    /\ UNCHANGED harnessVars
    /\ UNCHANGED libVars
    /\ UNCHANGED runVars

(* start_reporting, one iteration of the for loop: activate Report-key at  *)
(* now, then hold for an interarrival time.                                *)
start_reporting ==
    /\ Turn(a_tester)
    /\ key < report_number
    /\ Taken
    /\ \E d \in InterarrivalTimes :
         timestamps' = (timestamps \ {NextEv})
                         \cup {Notice(key, NextEv.at, FALSE, sortpr),
                               Notice(a_tester, NextEv.at + d, FALSE, sortpr - 1)}
    /\ sortpr' = sortpr - 2
    /\ key' = key + 1
    /\ pc' = [pc EXCEPT ![key] = "activated", ![a_tester] = "hold"]
    /\ UNCHANGED <<phase, message, n, activeQ, waitQ, bug_effort, arrival_time,
                   ready_time, fixed_time, yielded, requestLog, grantLog>>
    /\ UNCHANGED harnessVars
    /\ UNCHANGED libVars
    /\ UNCHANGED runVars

(* start_reporting, the loop is exhausted: the source terminates. *)
stop_reporting ==
    /\ Turn(a_tester)
    /\ ~(key < report_number)
    /\ Taken
    /\ timestamps' = timestamps \ {NextEv}
    /\ pc' = [pc EXCEPT ![a_tester] = "done"]
    /\ UNCHANGED <<phase, message, sortpr, n, activeQ, waitQ, key, bug_effort,
                   arrival_time, ready_time, fixed_time, yielded, requestLog,
                   grantLog>>
    /\ UNCHANGED harnessVars
    /\ UNCHANGED libVars
    /\ UNCHANGED runVars

(* arrive up to "yield request": the report notes its arrival time and     *)
(* requests a unit; it is granted one at once or joins the wait queue.     *)
arrive_request(r) ==
    /\ Turn(r)
    /\ pc[r] = "activated"
    /\ Taken
    /\ arrival_time' = [arrival_time EXCEPT ![r] = NextEv.at]
    /\ yielded' = [yielded EXCEPT ![r] = Append(@, "request")]
    /\ requestLog' = Append(requestLog, r)
    /\ IF CanGrant
         THEN /\ n' = n - 1
              /\ activeQ' = Append(activeQ, r)
              /\ waitQ' = waitQ
              /\ timestamps' = (timestamps \ {NextEv})
                                 \cup {Notice(r, NextEv.at, TRUE, sortpr)}
              /\ sortpr' = sortpr - 1
              /\ grantLog' = Append(grantLog, r)
              /\ pc' = [pc EXCEPT ![r] = "granted"]
         ELSE /\ waitQ' = Enter(waitQ, r)
              /\ timestamps' = timestamps \ {NextEv}
              /\ pc' = [pc EXCEPT ![r] = "waiting"]
              /\ UNCHANGED <<n, activeQ, sortpr, grantLog>>
    /\ UNCHANGED <<phase, message, key, bug_effort, ready_time, fixed_time>>
    /\ UNCHANGED harnessVars
    /\ UNCHANGED libVars
    /\ UNCHANGED runVars

(* arrive from the grant to "yield hold": the report prints that it is     *)
(* ready for fixing and holds for bug_effort.                              *)
arrive_hold(r) ==
    /\ Turn(r)
    /\ pc[r] = "granted"
    /\ Taken
    /\ ready_time' = [ready_time EXCEPT ![r] = NextEv.at]
    /\ yielded' = [yielded EXCEPT ![r] = Append(@, "hold")]
    /\ timestamps' = (timestamps \ {NextEv})
                       \cup {Notice(r, HoldUntil(NextEv.at), FALSE, sortpr)}
    /\ sortpr' = sortpr - 1
    /\ pc' = [pc EXCEPT ![r] = "holding"]
    /\ UNCHANGED <<phase, message, n, activeQ, waitQ, key, bug_effort,
                   arrival_time, fixed_time, requestLog, grantLog>>
    /\ UNCHANGED harnessVars
    /\ UNCHANGED libVars
    /\ UNCHANGED runVars

(* arrive at "yield release": the unit goes back to the resource, which    *)
(* hands it to the first waiting report, if any; both are reactivated.     *)
arrive_release(r) ==
    /\ Turn(r)
    /\ pc[r] = "holding"
    /\ Taken
    /\ yielded' = [yielded EXCEPT ![r] = Append(@, "release")]
    /\ IF HasWaiters
         THEN LET obj == Leave(waitQ) IN
              /\ waitQ' = Remove(waitQ, obj)
              /\ n' = n
              /\ activeQ' = Append(Remove(activeQ, r), obj)
              /\ timestamps' = (timestamps \ {NextEv})
                                 \cup {Notice(obj, NextEv.at, TRUE, sortpr),
                                       Notice(r, NextEv.at, TRUE, sortpr - 1)}
              /\ sortpr' = sortpr - 2
              /\ grantLog' = Append(grantLog, obj)
              /\ pc' = [pc EXCEPT ![r] = "released", ![obj] = "granted"]
         ELSE /\ n' = n + 1
              /\ activeQ' = Remove(activeQ, r)
              /\ timestamps' = (timestamps \ {NextEv})
                                 \cup {Notice(r, NextEv.at, TRUE, sortpr)}
              /\ sortpr' = sortpr - 1
              /\ pc' = [pc EXCEPT ![r] = "released"]
              /\ UNCHANGED <<waitQ, grantLog>>
    /\ UNCHANGED <<phase, message, key, bug_effort, arrival_time, ready_time,
                   fixed_time, requestLog>>
    /\ UNCHANGED harnessVars
    /\ UNCHANGED libVars
    /\ UNCHANGED runVars

(* arrive after the release: the report prints "got fixed" and terminates. *)
arrive_fixed(r) ==
    /\ Turn(r)
    /\ pc[r] = "released"
    /\ Taken
    /\ fixed_time' = [fixed_time EXCEPT ![r] = NextEv.at]
    /\ timestamps' = timestamps \ {NextEv}
    /\ pc' = [pc EXCEPT ![r] = "done"]
    /\ UNCHANGED <<phase, message, sortpr, n, activeQ, waitQ, key, bug_effort,
                   arrival_time, ready_time, yielded, requestLog, grantLog>>
    /\ UNCHANGED harnessVars
    /\ UNCHANGED libVars
    /\ UNCHANGED runVars

(* simulate: the next event notice is later than until; the clock is set   *)
(* to until and simulate returns without processing the notice.            *)
stop_at_horizon ==
    /\ Looping
    /\ HasNext
    /\ ~WithinHorizon(NextEv)
    /\ now' = max_time
    /\ phase' = "Completed"
    /\ message' = "Normal exit"
    /\ timestamps' = {}
    /\ UNCHANGED <<sortpr, n, activeQ, waitQ, key, pc, bug_effort, arrival_time,
                   ready_time, fixed_time, yielded, requestLog, grantLog, trace>>
    /\ UNCHANGED harnessVars
    /\ UNCHANGED libVars
    /\ UNCHANGED runVars

(* simulate: the event list is empty; simulate returns. *)
stop_no_events ==
    /\ Looping
    /\ ~HasNext
    /\ phase' = "Completed"
    /\ message' = "No more events"
    /\ UNCHANGED <<now, timestamps, sortpr, n, activeQ, waitQ, key, pc,
                   bug_effort, arrival_time, ready_time, fixed_time, yielded,
                   requestLog, grantLog, trace>>
    /\ UNCHANGED harnessVars
    /\ UNCHANGED libVars
    /\ UNCHANGED runVars

Next ==
    \/ simulate
    \/ start_reporting
    \/ stop_reporting
    \/ \E r \in Reports : arrive_request(r)
    \/ \E r \in Reports : arrive_hold(r)
    \/ \E r \in Reports : arrive_release(r)
    \/ \E r \in Reports : arrive_fixed(r)
    \/ stop_at_horizon
    \/ stop_no_events

Spec == Init /\ [][Next]_vars

(* The scenario in which start_reporting passes main's bug_effort to arrive *)
(* instead of its own literal: Init with the effort drawn from both values. *)
InitScenario ==
    /\ phase = "Idle"
    /\ message = "none"
    /\ now = 0
    /\ timestamps = {Notice(a_tester, 0, FALSE, 0)}
    /\ sortpr = -1
    /\ n = team_capacity
    /\ activeQ = <<>>
    /\ waitQ = <<>>
    /\ key = 0
    /\ pc = [p \in Procs |-> IF p = a_tester THEN "start" ELSE "unborn"]
    /\ bug_effort \in {main_bug_effort, start_reporting_bug_effort}
    /\ arrival_time = [r \in Reports |-> -1]
    /\ ready_time = [r \in Reports |-> -1]
    /\ fixed_time = [r \in Reports |-> -1]
    /\ yielded = [r \in Reports |-> <<>>]
    /\ requestLog = <<>>
    /\ grantLog = <<>>
    /\ trace = <<>>
    /\ HarnessOff
    /\ RunOff
    /\ LibOff

ScenarioSpec == InitScenario /\ [][Next]_vars

----------------------------------------------------------------------------
(* The replication harness: launch_simulation_parallel hands one          *)
(* worker_input per block to pool.map; each worker runs launch_simulation *)
(* through launch_simulation_wrapper; the caller then consolidates the    *)
(* outputs. run_model is a call of which only the outcome is modelled: it *)
(* returns the monitors of one replication or raises.                     *)

(* Bounds of the harness inputs. *)

MaxIterations == 4

MaxBlocks == 3

MaxResolved == 1

(* The inputs of launch_simulation that every run_model call receives. *)
Inputs ==
    [reporters_config : {"honest_profile", "simple_inflate_profile"},
     bugs_by_priority : {"bugs_by_priority"},
     resolution_time_gen : {"resolution_time_gen"}]

(* np.random.seed(): the stream restarts from fresh entropy, whatever its *)
(* state was.                                                             *)
np_random_seed_keeps(state) == state

np_random_seed(state) == "fresh"

(* The counter of the monitors a run_model call starts with, previous     *)
(* being the counter the call before it ended with.                       *)
MonitorsCarried(previous) == previous

MonitorsFresh(previous) == 0

(* range(parallel_blocks), and the workers the pool has been given. *)
Blocks == 1..parallel_blocks

Workers == DOMAIN worker_state

(* samples_per_worker: the integer division of Python 2. *)
samples_per_worker == max_iterations \div parallel_blocks

(* The monitors of replication i of worker w, as stored in each list. *)
Snapshot(w, i) == <<w, i>>

(* pool.map is over: a result is there for every worker_input. *)
MapSettlesEarly == \E w \in Workers : worker_state[w] = "returned"

MapSalvages ==
    \A w \in Workers : worker_state[w] \in {"returned", "failed"}

MapDone == \A w \in Workers : worker_state[w] = "returned"

(* The list pool.map returns: the workers' outputs in submission order. *)
MapResultAsCompleted ==
    [i \in 1..Len(finished) |-> lists[finished[i]]]

MapResult == [w \in Workers |-> lists[w]]

(* One iteration's appends: one snapshot at the end of every list. *)
AppendedButOne(ls, x) ==
    [k \in OutputKeys |-> IF k = "resolved_per_reporter" THEN ls[k]
                          ELSE Append(ls[k], x)]

Appended(ls, x) == [k \in OutputKeys |-> Append(ls[k], x)]

(* launch_simulation's loop condition. *)
MoreReplications(w) == replication_index[w] < worker_inputs[w]

HarnessInit ==
    /\ SimInit
    /\ RunOff
    /\ LibOff
    /\ h_pc = "start"
    /\ max_iterations \in 0..MaxIterations
    /\ parallel_blocks \in 1..MaxBlocks
    /\ worker_inputs = <<>>
    /\ worker_state = <<>>
    /\ replication_index = <<>>
    /\ lists = <<>>
    /\ finished = <<>>
    /\ worker_outputs = <<>>
    /\ consolidated = 0
    /\ merged = EmptyLists
    /\ inputs \in Inputs
    /\ w_pc = <<>>
    /\ rng = <<>>
    /\ seeds = <<>>
    /\ started_on = <<>>
    /\ monitors = <<>>
    /\ resolved_in_run = <<>>
    /\ recorded = <<>>

(* launch_simulation_parallel up to pool.map: one worker_input per block, *)
(* each with max_iterations = samples_per_worker; the workers start.      *)
launch_simulation_parallel ==
    /\ h_pc = "start"
    /\ worker_inputs' = [w \in Blocks |-> samples_per_worker]
    /\ worker_state' = [w \in Blocks |-> "running"]
    /\ replication_index' = [w \in Blocks |-> 0]
    /\ lists' = [w \in Blocks |-> EmptyLists]
    /\ w_pc' = [w \in Blocks |-> "loop"]
    /\ rng' = [w \in Blocks |-> "inherited"]
    /\ seeds' = [w \in Blocks |-> 0]
    /\ started_on' = [w \in Blocks |-> <<>>]
    /\ monitors' = [w \in Blocks |-> 0]
    /\ resolved_in_run' = [w \in Blocks |-> <<>>]
    /\ recorded' = [w \in Blocks |-> <<>>]
    /\ h_pc' = "map"
    /\ UNCHANGED <<max_iterations, parallel_blocks, finished, worker_outputs,
                   consolidated, merged, inputs>>
    /\ UNCHANGED simVars
    /\ UNCHANGED libVars
    /\ UNCHANGED runVars

(* launch_simulation, top of an iteration of a worker: np.random.seed().  *)
reseed(w) ==
    /\ worker_state[w] = "running"
    /\ MoreReplications(w)
    /\ w_pc[w] = "loop"
    /\ rng' = [rng EXCEPT ![w] = np_random_seed(@)]
    /\ seeds' = [seeds EXCEPT ![w] = @ + 1]
    /\ w_pc' = [w_pc EXCEPT ![w] = "seeded"]
    /\ UNCHANGED <<h_pc, max_iterations, parallel_blocks, worker_inputs,
                   worker_state, replication_index, lists, finished,
                   worker_outputs, consolidated, merged, inputs, started_on,
                   monitors, resolved_in_run, recorded>>
    /\ UNCHANGED simVars
    /\ UNCHANGED libVars
    /\ UNCHANGED runVars

(* launch_simulation, rest of an iteration of a worker: run_model runs on *)
(* the random stream, returns its monitors, and what is read from them is *)
(* appended to the six lists.                                             *)
replication(w) ==
    /\ worker_state[w] = "running"
    /\ w_pc[w] = "seeded"
    /\ \E c \in 0..MaxResolved :
         LET count == MonitorsFresh(monitors[w]) + c IN
         /\ monitors' = [monitors EXCEPT ![w] = count]
         /\ recorded' = [recorded EXCEPT ![w] = Append(@, count)]
         /\ resolved_in_run' = [resolved_in_run EXCEPT ![w] = Append(@, c)]
    /\ started_on' = [started_on EXCEPT ![w] = Append(@, rng[w])]
    /\ rng' = [rng EXCEPT ![w] = "used"]
    /\ lists' = [lists EXCEPT
                   ![w] = Appended(@, Snapshot(w, replication_index[w]))]
    /\ replication_index' = [replication_index EXCEPT ![w] = @ + 1]
    /\ w_pc' = [w_pc EXCEPT ![w] = "loop"]
    /\ UNCHANGED <<h_pc, max_iterations, parallel_blocks, worker_inputs,
                   worker_state, finished, worker_outputs, consolidated, merged,
                   inputs, seeds>>
    /\ UNCHANGED simVars
    /\ UNCHANGED libVars
    /\ UNCHANGED runVars

(* launch_simulation, rest of an iteration of a worker: run_model raises; *)
(* the exception leaves launch_simulation and launch_simulation_wrapper.  *)
replication_raises(w) ==
    /\ worker_state[w] = "running"
    /\ w_pc[w] = "seeded"
    /\ worker_state' = [worker_state EXCEPT ![w] = "failed"]
    /\ started_on' = [started_on EXCEPT ![w] = Append(@, rng[w])]
    /\ rng' = [rng EXCEPT ![w] = "used"]
    /\ UNCHANGED <<h_pc, max_iterations, parallel_blocks, worker_inputs,
                   replication_index, lists, finished, worker_outputs,
                   consolidated, merged, inputs, w_pc, seeds, monitors,
                   resolved_in_run, recorded>>
    /\ UNCHANGED simVars
    /\ UNCHANGED libVars
    /\ UNCHANGED runVars

(* launch_simulation returns its lists through launch_simulation_wrapper. *)
launch_simulation_wrapper(w) ==
    /\ worker_state[w] = "running"
    /\ ~MoreReplications(w)
    /\ worker_state' = [worker_state EXCEPT ![w] = "returned"]
    /\ finished' = Append(finished, w)
    /\ UNCHANGED <<h_pc, max_iterations, parallel_blocks, worker_inputs,
                   replication_index, lists, worker_outputs, consolidated, merged,
                   inputs, w_pc, rng, seeds, started_on, monitors,
                   resolved_in_run, recorded>>
    /\ UNCHANGED simVars
    /\ UNCHANGED libVars
    /\ UNCHANGED runVars

(* pool.map returns the outputs once every worker has returned. *)
pool_map_returns ==
    /\ h_pc = "map"
    /\ MapDone
    /\ worker_outputs' = MapResult
    /\ consolidated' = 0
    /\ h_pc' = "consolidating"
    /\ UNCHANGED <<max_iterations, parallel_blocks, worker_inputs, worker_state,
                   replication_index, lists, finished, merged,
                   inputs, w_pc, rng, seeds, started_on, monitors,
                   resolved_in_run, recorded>>
    /\ UNCHANGED simVars
    /\ UNCHANGED libVars
    /\ UNCHANGED runVars

(* pool.map raises the exception of a failed worker: the call of          *)
(* launch_simulation_parallel ends without a result.                      *)
pool_map_raises ==
    /\ h_pc = "map"
    /\ \E w \in Workers : worker_state[w] = "failed"
    /\ h_pc' = "raised"
    /\ UNCHANGED <<max_iterations, parallel_blocks, worker_inputs, worker_state,
                   replication_index, lists, finished, worker_outputs,
                   consolidated, merged,
                   inputs, w_pc, rng, seeds, started_on, monitors,
                   resolved_in_run, recorded>>
    /\ UNCHANGED simVars
    /\ UNCHANGED libVars
    /\ UNCHANGED runVars

(* One iteration of the consolidation loop: the next output is added to   *)
(* the end of each of the six lists.                                      *)
consolidate ==
    /\ h_pc = "consolidating"
    /\ consolidated < Len(worker_outputs)
    /\ merged' = [k \in OutputKeys |->
                    merged[k] \o worker_outputs[consolidated + 1][k]]
    /\ consolidated' = consolidated + 1
    /\ UNCHANGED <<h_pc, max_iterations, parallel_blocks, worker_inputs,
                   worker_state, replication_index, lists, finished,
                   worker_outputs,
                   inputs, w_pc, rng, seeds, started_on, monitors,
                   resolved_in_run, recorded>>
    /\ UNCHANGED simVars
    /\ UNCHANGED libVars
    /\ UNCHANGED runVars

(* launch_simulation_parallel returns the dict of the six lists. *)
return_outputs ==
    /\ h_pc = "consolidating"
    /\ ~(consolidated < Len(worker_outputs))
    /\ h_pc' = "returned"
    /\ UNCHANGED <<max_iterations, parallel_blocks, worker_inputs, worker_state,
                   replication_index, lists, finished, worker_outputs,
                   consolidated, merged,
                   inputs, w_pc, rng, seeds, started_on, monitors,
                   resolved_in_run, recorded>>
    /\ UNCHANGED simVars
    /\ UNCHANGED libVars
    /\ UNCHANGED runVars

HarnessNext ==
    \/ launch_simulation_parallel
    \/ \E w \in Workers : reseed(w)
    \/ \E w \in Workers : replication(w)
    \/ \E w \in Workers : replication_raises(w)
    \/ \E w \in Workers : launch_simulation_wrapper(w)
    \/ pool_map_returns
    \/ pool_map_raises
    \/ consolidate
    \/ return_outputs

HarnessSpec == HarnessInit /\ [][HarnessNext]_vars

----------------------------------------------------------------------------
(* run_model, the simulation run that launch_simulation calls: reporters  *)
(* submit reports whose reported priority is their strategy applied to    *)
(* the true priority; the quota stage and the gatekeeper stage come       *)
(* before the developer pool, which stops granting units when the         *)
(* developer hours are exhausted. The run uses the event list above with  *)
(* max_time = sys.maxint, which no event of the model exceeds.            *)

(* Bounds of the run. *)

RunReportTarget == 3

RunGap == 8

NonSevereEffort == 5

SevereEffort == 7

ReviewTime == 2

LowBandwidth == 6

(* Constants of the callers: sys.maxint (scaled), the default             *)
(* inflation_factor and the capacity of the gatekeeper configuration.     *)

maxint == 1000000

inflation_factor == 1

gatekeeper_capacity == 1

Reporters == {-2, -1}

RunReports == 0..(RunReportTarget - 1)

Priorities == {"non_severe", "severe"}

Strategies == {"honest", "simple_inflate"}

(* A strategy that breaks its contract: for a severe report it returns a  *)
(* value that is no priority class.                                       *)
MalformedStrategy == "malformed"

(* strategy.apply(true_priority). *)
Apply(strategy, p) ==
    IF strategy = "simple_inflate" /\ p = "non_severe" THEN "severe"
    ELSE IF strategy = MalformedStrategy /\ p = "severe" THEN "invalid"
    ELSE p

(* The value is one of the priority classes. *)
IsPriorityAnything(q) == TRUE

IsPriority(q) == q \in Priorities

(* resolution_time_gen[priority].generate(). *)
EffortOf(p) == IF p = "severe" THEN SevereEffort ELSE NonSevereEffort

GatekeeperOff == [enabled |-> FALSE, review_time |-> 0, capacity |-> 0]

GatekeeperOn ==
    [enabled |-> TRUE, review_time |-> ReviewTime, capacity |-> gatekeeper_capacity]

Configurations ==
    [team_capacity : {team_capacity},
     dev_team_bandwidth : {LowBandwidth, maxint},
     gatekeeper_config : {GatekeeperOff, GatekeeperOn},
     quota_system : BOOLEAN,
     inflation_factor : {inflation_factor},
     strategy : {[rep \in Reporters |-> IF rep = -1 THEN "simple_inflate" ELSE st] :
                   st \in Strategies \cup {MalformedStrategy}}]

(* The quota stage: the distortions a reporter is allowed. *)
Allowance == config.inflation_factor

QuotaLeftOneMore(rep) == inflated[rep] <= Allowance

QuotaLeft(rep) == inflated[rep] < Allowance

(* The priority a report of rep with true priority p is submitted with. *)
Submitted_priority(rep, p) ==
    IF config.quota_system /\ ~QuotaLeft(rep) THEN p
    ELSE Apply(config.strategy[rep], p)

(* The gatekeeper stage is enabled. *)
NeedsReviewNever == FALSE

NeedsReview == config.gatekeeper_config.enabled

(* The developer hours are exhausted. *)
ExhaustedNever(hours) == FALSE

Exhausted(hours) == hours > config.dev_team_bandwidth

(* The stages a report goes through before the developer queue. *)
StagesOf ==
    (IF config.quota_system THEN <<"quota_in", "quota_out">> ELSE <<>>)
      \o (IF NeedsReview THEN <<"gatekeeper_in", "gatekeeper_out">> ELSE <<>>)

RunTurn(p) == Looping /\ HasNext /\ NextEv.who = p

RunInit ==
    /\ HarnessOff
    /\ LibOff
    /\ phase = "Idle"
    /\ message = "none"
    /\ now = 0
    /\ timestamps = {Notice(-2, 0, FALSE, 0), Notice(-1, 0, FALSE, -1)}
    /\ sortpr = -2
    /\ config \in Configurations
    /\ n = team_capacity
    /\ activeQ = <<>>
    /\ waitQ = <<>>
    /\ key = 0
    /\ pc = [p \in Reporters \cup RunReports |->
               IF p \in Reporters THEN "start" ELSE "unborn"]
    /\ bug_effort = 0
    /\ arrival_time = [r \in RunReports |-> -1]
    /\ ready_time = [r \in RunReports |-> -1]
    /\ fixed_time = [r \in RunReports |-> -1]
    /\ yielded = [r \in RunReports |-> <<>>]
    /\ requestLog = <<>>
    /\ grantLog = <<>>
    /\ trace = <<>>
    /\ bug = [r \in RunReports |->
                [reporter |-> 0, true |-> "none", submitted |-> "none",
                 reported |-> "none", review_at |-> -1, requested_at |-> -1,
                 hours_at_grant |-> -1]]
    /\ sent = [rep \in Reporters |-> 0]
    /\ inflated = [rep \in Reporters |-> 0]
    /\ gk_n = IF config.gatekeeper_config.enabled
                THEN config.gatekeeper_config.capacity ELSE 0
    /\ gk_activeQ = <<>>
    /\ gk_waitQ = <<>>
    /\ consumed = 0
    /\ late = {}
    /\ stageLog = [r \in RunReports |-> <<>>]

(* run_model starts the event loop. *)
run_model ==
    /\ phase = "Idle"
    /\ HasNext
    /\ phase' = "Running"
    /\ UNCHANGED <<message, now, timestamps, sortpr, n, activeQ, waitQ, key, pc,
                   bug_effort, arrival_time, ready_time, fixed_time, yielded,
                   requestLog, grantLog, trace>>
    /\ UNCHANGED harnessVars
    /\ UNCHANGED libVars
    /\ UNCHANGED runVars

(* A reporter's arrival process, one tick: a report with a true priority  *)
(* drawn from the priority distribution is submitted with the priority    *)
(* the strategy and the quota stage give it; then the interarrival hold.  *)
reporter_submits(rep) ==
    /\ RunTurn(rep)
    /\ key < RunReportTarget
    /\ now' = NextEv.at
    /\ \E p \in Priorities : \E d \in {0, RunGap} :
         LET q == Submitted_priority(rep, p) IN
         /\ IsPriority(Apply(config.strategy[rep], p))
         /\ bug' = [bug EXCEPT ![key] =
                      [@ EXCEPT !.reporter = rep, !.true = p, !.submitted = q,
                                !.reported = q]]
         /\ inflated' = [inflated EXCEPT ![rep] = IF q # p THEN @ + 1 ELSE @]
         /\ timestamps' = (timestamps \ {NextEv})
                            \cup {Notice(key, NextEv.at, FALSE, sortpr),
                                  Notice(rep, NextEv.at + d, FALSE, sortpr - 1)}
    /\ stageLog' = [stageLog EXCEPT ![key] =
                      IF config.quota_system THEN <<"quota_in", "quota_out">>
                      ELSE <<>>]
    /\ sent' = [sent EXCEPT ![rep] = @ + 1]
    /\ sortpr' = sortpr - 2
    /\ key' = key + 1
    /\ pc' = [pc EXCEPT ![key] = "activated", ![rep] = "hold"]
    /\ UNCHANGED <<phase, message, n, activeQ, waitQ, bug_effort, arrival_time,
                   ready_time, fixed_time, yielded, requestLog, grantLog, trace,
                   config, gk_n, gk_activeQ, gk_waitQ, consumed, late>>
    /\ UNCHANGED harnessVars
    /\ UNCHANGED libVars

(* A reporter's arrival process, one tick: the strategy returns a value   *)
(* that is no priority class; the run fails with StrategyContractError    *)
(* and no report is created.                                              *)
strategy_contract_error(rep) ==
    /\ RunTurn(rep)
    /\ key < RunReportTarget
    /\ \E p \in Priorities : ~IsPriority(Apply(config.strategy[rep], p))
    /\ now' = NextEv.at
    /\ phase' = "Failed"
    /\ message' = "StrategyContractError"
    /\ UNCHANGED <<timestamps, sortpr, n, activeQ, waitQ, key, pc, bug_effort,
                   arrival_time, ready_time, fixed_time, yielded, requestLog,
                   grantLog, trace>>
    /\ UNCHANGED harnessVars
    /\ UNCHANGED libVars
    /\ UNCHANGED runVars

(* A reporter's arrival process ends: the total-reports target is reached. *)
reporter_stops(rep) ==
    /\ RunTurn(rep)
    /\ ~(key < RunReportTarget)
    /\ now' = NextEv.at
    /\ timestamps' = timestamps \ {NextEv}
    /\ pc' = [pc EXCEPT ![rep] = "done"]
    /\ UNCHANGED <<phase, message, sortpr, n, activeQ, waitQ, key, bug_effort,
                   arrival_time, ready_time, fixed_time, yielded, requestLog,
                   grantLog, trace>>
    /\ UNCHANGED harnessVars
    /\ UNCHANGED libVars
    /\ UNCHANGED runVars

(* The request of report r on the developer pool, dispatched while the    *)
(* event list is rest: granted if a unit is free and the developer hours  *)
(* are not exhausted, queued otherwise.                                   *)
RequestDeveloper(r, rest) ==
    /\ requestLog' = Append(requestLog, r)
    /\ late' = IF Exhausted(consumed) THEN late \cup {r} ELSE late
    /\ IF CanGrant /\ ~Exhausted(consumed)
         THEN /\ n' = n - 1
              /\ activeQ' = Append(activeQ, r)
              /\ waitQ' = waitQ
              /\ timestamps' = rest \cup {Notice(r, NextEv.at, TRUE, sortpr)}
              /\ sortpr' = sortpr - 1
              /\ grantLog' = Append(grantLog, r)
              /\ pc' = [pc EXCEPT ![r] = "dev_granted"]
              /\ bug' = [bug EXCEPT ![r].requested_at = NextEv.at,
                                    ![r].hours_at_grant = consumed]
         ELSE /\ waitQ' = Enter(waitQ, r)
              /\ timestamps' = rest
              /\ pc' = [pc EXCEPT ![r] = "dev_waiting"]
              /\ bug' = [bug EXCEPT ![r].requested_at = NextEv.at]
              /\ UNCHANGED <<n, activeQ, sortpr, grantLog>>

(* A report arrives: with the gatekeeper disabled it requests a developer *)
(* at once.                                                               *)
report_arrives(r) ==
    /\ RunTurn(r)
    /\ pc[r] = "activated"
    /\ ~NeedsReview
    /\ now' = NextEv.at
    /\ arrival_time' = [arrival_time EXCEPT ![r] = NextEv.at]
    /\ RequestDeveloper(r, timestamps \ {NextEv})
    /\ UNCHANGED <<phase, message, key, bug_effort, ready_time, fixed_time,
                   yielded, trace, config, sent, inflated, gk_n, gk_activeQ,
                   gk_waitQ, consumed, stageLog>>
    /\ UNCHANGED harnessVars
    /\ UNCHANGED libVars

(* A report arrives: with the gatekeeper enabled it requests the review   *)
(* resource.                                                              *)
report_to_gatekeeper(r) ==
    /\ RunTurn(r)
    /\ pc[r] = "activated"
    /\ NeedsReview
    /\ now' = NextEv.at
    /\ arrival_time' = [arrival_time EXCEPT ![r] = NextEv.at]
    /\ stageLog' = [stageLog EXCEPT ![r] = Append(@, "gatekeeper_in")]
    /\ IF gk_n > 0
         THEN /\ gk_n' = gk_n - 1
              /\ gk_activeQ' = Append(gk_activeQ, r)
              /\ gk_waitQ' = gk_waitQ
              /\ timestamps' = (timestamps \ {NextEv})
                                 \cup {Notice(r, NextEv.at, TRUE, sortpr)}
              /\ sortpr' = sortpr - 1
              /\ pc' = [pc EXCEPT ![r] = "review_granted"]
         ELSE /\ gk_waitQ' = Enter(gk_waitQ, r)
              /\ timestamps' = timestamps \ {NextEv}
              /\ pc' = [pc EXCEPT ![r] = "review_waiting"]
              /\ UNCHANGED <<gk_n, gk_activeQ, sortpr>>
    /\ UNCHANGED <<phase, message, n, activeQ, waitQ, key, bug_effort, ready_time,
                   fixed_time, yielded, requestLog, grantLog, trace, config, bug,
                   sent, inflated, consumed, late>>
    /\ UNCHANGED harnessVars
    /\ UNCHANGED libVars

(* The review starts: the report holds the review resource for review_time. *)
review_starts(r) ==
    /\ RunTurn(r)
    /\ pc[r] = "review_granted"
    /\ now' = NextEv.at
    /\ bug' = [bug EXCEPT ![r].review_at = NextEv.at]
    /\ timestamps' = (timestamps \ {NextEv})
                       \cup {Notice(r, NextEv.at + config.gatekeeper_config.review_time,
                                    FALSE, sortpr)}
    /\ sortpr' = sortpr - 1
    /\ pc' = [pc EXCEPT ![r] = "reviewing"]
    /\ UNCHANGED <<phase, message, n, activeQ, waitQ, key, bug_effort,
                   arrival_time, ready_time, fixed_time, yielded, requestLog,
                   grantLog, trace, config, sent, inflated, gk_n, gk_activeQ,
                   gk_waitQ, consumed, late, stageLog>>
    /\ UNCHANGED harnessVars
    /\ UNCHANGED libVars

(* The review ends: a distorted priority is corrected or not, the review  *)
(* resource is released and handed to the first report waiting for it.    *)
review_ends(r) ==
    /\ RunTurn(r)
    /\ pc[r] = "reviewing"
    /\ now' = NextEv.at
    /\ \E corrected \in BOOLEAN :
         bug' = [bug EXCEPT ![r].reported =
                   IF corrected THEN bug[r].true ELSE bug[r].reported]
    /\ stageLog' = [stageLog EXCEPT ![r] = Append(@, "gatekeeper_out")]
    /\ IF gk_waitQ # <<>>
         THEN LET obj == Leave(gk_waitQ) IN
              /\ gk_waitQ' = Remove(gk_waitQ, obj)
              /\ gk_n' = gk_n
              /\ gk_activeQ' = Append(Remove(gk_activeQ, r), obj)
              /\ timestamps' = (timestamps \ {NextEv})
                                 \cup {Notice(obj, NextEv.at, TRUE, sortpr),
                                       Notice(r, NextEv.at, TRUE, sortpr - 1)}
              /\ sortpr' = sortpr - 2
              /\ pc' = [pc EXCEPT ![r] = "reviewed", ![obj] = "review_granted"]
         ELSE /\ gk_n' = gk_n + 1
              /\ gk_activeQ' = Remove(gk_activeQ, r)
              /\ timestamps' = (timestamps \ {NextEv})
                                 \cup {Notice(r, NextEv.at, TRUE, sortpr)}
              /\ sortpr' = sortpr - 1
              /\ pc' = [pc EXCEPT ![r] = "reviewed"]
              /\ UNCHANGED gk_waitQ
    /\ UNCHANGED <<phase, message, n, activeQ, waitQ, key, bug_effort,
                   arrival_time, ready_time, fixed_time, yielded, requestLog,
                   grantLog, trace, config, sent, inflated, consumed, late>>
    /\ UNCHANGED harnessVars
    /\ UNCHANGED libVars

(* After the review the report requests a developer. *)
report_reviewed(r) ==
    /\ RunTurn(r)
    /\ pc[r] = "reviewed"
    /\ now' = NextEv.at
    /\ RequestDeveloper(r, timestamps \ {NextEv})
    /\ UNCHANGED <<phase, message, key, bug_effort, arrival_time, ready_time,
                   fixed_time, yielded, trace, config, sent, inflated, gk_n,
                   gk_activeQ, gk_waitQ, consumed, stageLog>>
    /\ UNCHANGED harnessVars
    /\ UNCHANGED libVars

(* The fix starts: the report holds its developer for the resolution time *)
(* of its reported priority.                                              *)
fix_starts(r) ==
    /\ RunTurn(r)
    /\ pc[r] = "dev_granted"
    /\ now' = NextEv.at
    /\ ready_time' = [ready_time EXCEPT ![r] = NextEv.at]
    /\ timestamps' = (timestamps \ {NextEv})
                       \cup {Notice(r, NextEv.at + EffortOf(bug[r].reported),
                                    FALSE, sortpr)}
    /\ sortpr' = sortpr - 1
    /\ pc' = [pc EXCEPT ![r] = "fixing"]
    /\ UNCHANGED <<phase, message, n, activeQ, waitQ, key, bug_effort,
                   arrival_time, fixed_time, yielded, requestLog, grantLog, trace>>
    /\ UNCHANGED harnessVars
    /\ UNCHANGED libVars
    /\ UNCHANGED runVars

(* The fix ends: its hours are consumed and the developer is released; it *)
(* goes to the first waiting report unless the hours are now exhausted.   *)
fix_ends(r) ==
    /\ RunTurn(r)
    /\ pc[r] = "fixing"
    /\ now' = NextEv.at
    /\ consumed' = consumed + EffortOf(bug[r].reported)
    /\ fixed_time' = [fixed_time EXCEPT ![r] = NextEv.at]
    /\ IF waitQ # <<>> /\ ~Exhausted(consumed')
         THEN LET obj == Leave(waitQ) IN
              /\ waitQ' = Remove(waitQ, obj)
              /\ n' = n
              /\ activeQ' = Append(Remove(activeQ, r), obj)
              /\ timestamps' = (timestamps \ {NextEv})
                                 \cup {Notice(obj, NextEv.at, TRUE, sortpr)}
              /\ sortpr' = sortpr - 1
              /\ grantLog' = Append(grantLog, obj)
              /\ pc' = [pc EXCEPT ![r] = "fixed", ![obj] = "dev_granted"]
              /\ bug' = [bug EXCEPT ![obj].hours_at_grant = consumed']
         ELSE /\ n' = n + 1
              /\ activeQ' = Remove(activeQ, r)
              /\ timestamps' = timestamps \ {NextEv}
              /\ pc' = [pc EXCEPT ![r] = "fixed"]
              /\ UNCHANGED <<waitQ, grantLog, sortpr, bug>>
    /\ UNCHANGED <<phase, message, key, bug_effort, arrival_time, ready_time,
                   yielded, requestLog, trace, config, sent, inflated, gk_n,
                   gk_activeQ, gk_waitQ, late, stageLog>>
    /\ UNCHANGED harnessVars
    /\ UNCHANGED libVars

(* The event list is empty: the run is completed. *)
run_completes ==
    /\ Looping
    /\ ~HasNext
    /\ phase' = "Completed"
    /\ message' = "No more events"
    /\ UNCHANGED <<now, timestamps, sortpr, n, activeQ, waitQ, key, pc,
                   bug_effort, arrival_time, ready_time, fixed_time, yielded,
                   requestLog, grantLog, trace>>
    /\ UNCHANGED harnessVars
    /\ UNCHANGED libVars
    /\ UNCHANGED runVars

RunNext ==
    \/ run_model
    \/ \E rep \in Reporters : reporter_submits(rep)
    \/ \E rep \in Reporters : strategy_contract_error(rep)
    \/ \E rep \in Reporters : reporter_stops(rep)
    \/ \E r \in RunReports : report_arrives(r)
    \/ \E r \in RunReports : report_to_gatekeeper(r)
    \/ \E r \in RunReports : review_starts(r)
    \/ \E r \in RunReports : review_ends(r)
    \/ \E r \in RunReports : report_reviewed(r)
    \/ \E r \in RunReports : fix_starts(r)
    \/ \E r \in RunReports : fix_ends(r)
    \/ run_completes

RunModelSpec == RunInit /\ [][RunNext]_vars

----------------------------------------------------------------------------
(* ContinuousEmpiricalDistribution of simutils.py, built from             *)
(* observations: __init__ refuses fewer than MINIMUM_OBSERVATIONS, else   *)
(* inverse_transform_sampling builds the interpolator of the inverse CDF  *)
(* from a histogram, and generate evaluates it at rand_uniform.           *)
(* Arithmetic is exact: the bin edges are kept multiplied by Scale, the   *)
(* cumulative values multiplied by len(observations), rand_uniform is     *)
(* a / UniformDen, and a variate is the fraction num / (den * Scale).     *)

(* Bounds of the inputs. *)

MaxObservation == 2

MaxObservations == 4

UniformHalfSteps == 2

MaxDraws == 2

MINIMUM_OBSERVATIONS == 3

n_bins == 40

Scale == 2 * n_bins

UniformDen == 2 * UniformHalfSteps

RECURSIVE SeqsUpTo(_, _)
SeqsUpTo(S, len) ==
    IF len = 0 THEN {<<>>}
    ELSE LET shorter == SeqsUpTo(S, len - 1) IN
         shorter \cup {Append(q, v) : q \in {t \in shorter : Len(t) = len - 1}, v \in S}

ObservationLists == SeqsUpTo(0..MaxObservation, MaxObservations)

MinOf(obs) == CHOOSE v \in Members(obs) : \A w \in Members(obs) : v <= w

MaxOf(obs) == CHOOSE v \in Members(obs) : \A w \in Members(obs) : v >= w

(* len(observations) < MINIMUM_OBSERVATIONS *)
TooFewOrJustEnough(obs) == Len(obs) <= MINIMUM_OBSERVATIONS

TooFew(obs) == Len(obs) < MINIMUM_OBSERVATIONS

(* np.histogram's bin_edges: n_bins + 1 edges, equally spaced over        *)
(* [min, max], or over [min - 0.5, max + 0.5] when min = max.             *)
bin_edges(obs) ==
    LET lo == MinOf(obs)
        hi == MaxOf(obs)
    IN  [k \in 1..(n_bins + 1) |->
           IF lo = hi THEN Scale * lo - n_bins + 2 * (k - 1)
           ELSE Scale * lo + 2 * (k - 1) * (hi - lo)]

(* cum_values: zero, then the cumulative sum of hist * diff(bin_edges),   *)
(* the share of the observations in the bins before each edge; the last  *)
(* bin is closed on the right.                                            *)
cum_values(obs) ==
    LET edges == bin_edges(obs) IN
    [k \in 1..(n_bins + 1) |->
       IF k = n_bins + 1 THEN Len(obs)
       ELSE Cardinality({i \in DOMAIN obs : Scale * obs[i] < edges[k]})]

(* np.searchsorted(x, x_new), side left, as a 0-based index: the first    *)
(* position whose x is not below x_new = a / UniformDen, len(x) if none.  *)
searchsorted(x, a, total) ==
    LET at == {k \in DOMAIN x : x[k] * UniformDen >= a * total} IN
    IF at = {} THEN Len(x)
    ELSE (CHOOSE k \in at : \A j \in at : k <= j) - 1

(* interp1d's linear call at a / UniformDen: the index is clipped to      *)
(* 1..len(x)-1, slope = (y_hi - y_lo) / (x_hi - x_lo) and the result is   *)
(* slope * (x_new - x_lo) + y_lo; a zero x_hi - x_lo with a zero          *)
(* x_new - x_lo gives nan.                                                *)
interp1d_call(f, a, total) ==
    LET found == searchsorted(f.x, a, total)
        top == Len(f.x) - 1
        hi == IF found < 1 THEN 1 ELSE IF found > top THEN top ELSE found
        lo == hi - 1
        dx == f.x[hi + 1] - f.x[lo + 1]
        du == a * total - f.x[lo + 1] * UniformDen
    IN  IF dx = 0
          THEN [u |-> a, nan |-> TRUE, num |-> 0, den |-> 1]
          ELSE [u |-> a, nan |-> FALSE,
                num |-> f.y[lo + 1] * dx * UniformDen + (f.y[hi + 1] - f.y[lo + 1]) * du,
                den |-> dx * UniformDen]

DistInit ==
    /\ SimInit
    /\ HarnessOff
    /\ RunOff
    /\ PayoffOff
    /\ observations \in ObservationLists
    /\ d_pc = "new"
    /\ raised = "none"
    /\ inverse_cdf = [x |-> <<>>, y |-> <<>>]
    /\ draws = <<>>

(* ContinuousEmpiricalDistribution(observations=observations) *)
ContinuousEmpiricalDistribution ==
    /\ d_pc = "new"
    /\ IF TooFew(observations)
         THEN /\ raised' = "ValueError"
              /\ d_pc' = "raised"
              /\ UNCHANGED inverse_cdf
         ELSE /\ inverse_cdf' = [x |-> cum_values(observations),
                                 y |-> bin_edges(observations)]
              /\ d_pc' = "built"
              /\ UNCHANGED raised
    /\ UNCHANGED <<observations, draws>>
    /\ UNCHANGED simVars
    /\ UNCHANGED harnessVars
    /\ UNCHANGED runVars
    /\ UNCHANGED payoffVars

(* generate(rand_uniform) on a distribution built from observations. *)
generate ==
    /\ d_pc = "built"
    /\ Len(draws) < MaxDraws
    /\ \E a \in 0..UniformDen :
         draws' = Append(draws, interp1d_call(inverse_cdf, a, Len(observations)))
    /\ UNCHANGED <<observations, d_pc, raised, inverse_cdf>>
    /\ UNCHANGED simVars
    /\ UNCHANGED harnessVars
    /\ UNCHANGED runVars
    /\ UNCHANGED payoffVars

DistNext == ContinuousEmpiricalDistribution \/ generate

DistSpec == DistInit /\ [][DistNext]_vars

----------------------------------------------------------------------------
(* payoffgetter.py: get_strategy_map builds one strategy map per strategy *)
(* profile, and configure_strategies_per_team attaches the strategies of  *)
(* one of them to the reporter configurations, as run_simulation does for *)
(* each profile. A strategy is an object with a name; a name is the       *)
(* sequence of its characters.                                            *)

(* Bounds of the inputs. *)

MaxStrategies == 2

MaxTeams == 3

MaxPlayers == 2

StrategyCatalog ==
    {[id |-> 1, name |-> <<"h", "o">>],
     [id |-> 2, name |-> <<"s">>],
     [id |-> 3, name |-> <<"e", "m", "p">>]}

NoStrategy == [id |-> 0, name |-> <<>>]

(* The lists of distinct strategies of at most MaxStrategies entries. *)
StrategyLists ==
    {l \in SeqsUpTo(StrategyCatalog, MaxStrategies) :
       \A i \in DOMAIN l : \A j \in DOMAIN l : i # j => l[i] # l[j]}

(* The reporter configurations: name, team and the data of the reporter. *)
Players ==
    {[name |-> nm, team |-> tm, strategy |-> NoStrategy, reports |-> 3,
      interarrival_time_gen |-> "gen"] :
       nm \in {"ann", "bob"}, tm \in 0..(MaxTeams - 1)}

PlayerConfigurations ==
    {l \in SeqsUpTo(Players, MaxPlayers) :
       \A i \in DOMAIN l : l[i].name = (IF i = 1 THEN "ann" ELSE "bob")}

(* itertools.product(strategy_list, repeat=teams), as a list: the last    *)
(* position changes fastest.                                              *)
RECURSIVE product(_, _)
product(l, repeat) ==
    IF repeat = 0 THEN << <<>> >>
    ELSE LET shorter == product(l, repeat - 1)
             len == Len(l)
         IN  [j \in 1..(Len(shorter) * len) |->
                Append(shorter[((j - 1) \div len) + 1], l[((j - 1) % len) + 1])]

(* reversed(list(profile)) *)
reversedNot(profile) == profile

reversed(profile) == [i \in 1..Len(profile) |-> profile[Len(profile) + 1 - i]]

(* The inner loop on the name: strategy_map['name'] += strategy_name + "_" *)
(* for every strategy, in order.                                          *)
RECURSIVE names_with_separator(_)
names_with_separator(strategies) ==
    IF strategies = <<>> THEN <<>>
    ELSE Head(strategies).name \o <<"_">> \o names_with_separator(Tail(strategies))

(* strategy_map['name'][:-1] *)
but_last(name) == IF name = <<>> THEN <<>> ELSE SubSeq(name, 1, Len(name) - 1)

(* The strategy_map built for one profile: enumerate starts at 0. *)
map_of(profile) ==
    LET order == reversed(profile) IN
    [name |-> but_last(names_with_separator(order)),
     map |-> [index \in 0..(Len(order) - 1) |-> order[index + 1]]]

PayoffInit ==
    /\ SimInit
    /\ HarnessOff
    /\ RunOff
    /\ DistOff
    /\ strategy_list \in StrategyLists
    /\ teams \in 0..MaxTeams
    /\ strategy_profiles = <<>>
    /\ strategy_maps = <<>>
    /\ player_configuration = <<>>
    /\ strategy_map = <<>>
    /\ config_index = 0
    /\ original_configuration = <<>>
    /\ p_pc = "start"

(* get_strategy_map up to its loop: the list of the profiles. *)
get_strategy_map ==
    /\ p_pc = "start"
    /\ strategy_profiles' = product(strategy_list, teams)
    /\ strategy_maps' = <<>>
    /\ p_pc' = "profiles"
    /\ UNCHANGED <<strategy_list, teams, player_configuration, strategy_map,
                   config_index, original_configuration>>
    /\ UNCHANGED simVars
    /\ UNCHANGED harnessVars
    /\ UNCHANGED runVars
    /\ UNCHANGED distVars

(* get_strategy_map, one iteration of its loop: the map of the next       *)
(* profile is appended.                                                   *)
get_strategy_map_profile ==
    /\ p_pc = "profiles"
    /\ Len(strategy_maps) < Len(strategy_profiles)
    /\ strategy_maps' =
         Append(strategy_maps, map_of(strategy_profiles[Len(strategy_maps) + 1]))
    /\ UNCHANGED <<strategy_list, teams, strategy_profiles, player_configuration,
                   strategy_map, config_index, original_configuration, p_pc>>
    /\ UNCHANGED simVars
    /\ UNCHANGED harnessVars
    /\ UNCHANGED runVars
    /\ UNCHANGED distVars

(* get_strategy_map returns strategy_maps. *)
get_strategy_map_returns ==
    /\ p_pc = "profiles"
    /\ ~(Len(strategy_maps) < Len(strategy_profiles))
    /\ p_pc' = "maps"
    /\ UNCHANGED <<strategy_list, teams, strategy_profiles, strategy_maps,
                   player_configuration, strategy_map, config_index,
                   original_configuration>>
    /\ UNCHANGED simVars
    /\ UNCHANGED harnessVars
    /\ UNCHANGED runVars
    /\ UNCHANGED distVars

(* run_simulation calls configure_strategies_per_team with the reporter   *)
(* configurations and the map of one of the profiles.                     *)
run_simulation ==
    /\ p_pc = "maps"
    /\ \E m \in DOMAIN strategy_maps : strategy_map' = strategy_maps[m].map
    /\ \E l \in PlayerConfigurations :
         /\ player_configuration' = l
         /\ original_configuration' = l
    /\ config_index' = 0
    /\ p_pc' = "configuring"
    /\ UNCHANGED <<strategy_list, teams, strategy_profiles, strategy_maps>>
    /\ UNCHANGED simVars
    /\ UNCHANGED harnessVars
    /\ UNCHANGED runVars
    /\ UNCHANGED distVars

(* The strategy assigned to a configuration. *)
strategy_for_first(position) == strategy_map[player_configuration[1].team]

strategy_for(position) == strategy_map[player_configuration[position].team]

(* configure_strategies_per_team, one iteration of its loop:              *)
(* config['strategy'] = strategy_map[config['team']].                     *)
configure_strategies_per_team ==
    /\ p_pc = "configuring"
    /\ config_index < Len(player_configuration)
    /\ player_configuration[config_index + 1].team \in DOMAIN strategy_map
    /\ player_configuration' =
         [player_configuration EXCEPT
            ![config_index + 1].strategy = strategy_for(config_index + 1)]
    /\ config_index' = config_index + 1
    /\ UNCHANGED <<strategy_list, teams, strategy_profiles, strategy_maps,
                   strategy_map, original_configuration, p_pc>>
    /\ UNCHANGED simVars
    /\ UNCHANGED harnessVars
    /\ UNCHANGED runVars
    /\ UNCHANGED distVars

(* configure_strategies_per_team: strategy_map has no entry for the team  *)
(* of the configuration, the lookup raises KeyError.                      *)
configure_strategies_per_team_raises ==
    /\ p_pc = "configuring"
    /\ config_index < Len(player_configuration)
    /\ player_configuration[config_index + 1].team \notin DOMAIN strategy_map
    /\ p_pc' = "KeyError"
    /\ UNCHANGED <<strategy_list, teams, strategy_profiles, strategy_maps,
                   player_configuration, strategy_map, config_index,
                   original_configuration>>
    /\ UNCHANGED simVars
    /\ UNCHANGED harnessVars
    /\ UNCHANGED runVars
    /\ UNCHANGED distVars

(* configure_strategies_per_team returns. *)
configure_strategies_per_team_returns ==
    /\ p_pc = "configuring"
    /\ ~(config_index < Len(player_configuration))
    /\ p_pc' = "configured"
    /\ UNCHANGED <<strategy_list, teams, strategy_profiles, strategy_maps,
                   player_configuration, strategy_map, config_index,
                   original_configuration>>
    /\ UNCHANGED simVars
    /\ UNCHANGED harnessVars
    /\ UNCHANGED runVars
    /\ UNCHANGED distVars

PayoffNext ==
    \/ get_strategy_map
    \/ get_strategy_map_profile
    \/ get_strategy_map_returns
    \/ run_simulation
    \/ configure_strategies_per_team
    \/ configure_strategies_per_team_raises
    \/ configure_strategies_per_team_returns

PayoffSpec == PayoffInit /\ [][PayoffNext]_vars

----------------------------------------------------------------------------
(* Observables used by the properties. *)

Granted(r) == r \in Members(grantLog)

Released(r) == \E i \in DOMAIN yielded[r] : yielded[r][i] = "release"

(* The report holds a unit: granted by request and not yet released. *)
Holds(r) == Granted(r) /\ ~Released(r)

Holders == {r \in Reports : Holds(r)}

Submitted == {r \in Reports : pc[r] # "unborn"}

Resolved == {r \in Reports : fixed_time[r] >= 0}

IsPrefix(s, t) == Len(s) <= Len(t) /\ \A i \in DOMAIN s : s[i] = t[i]

Occurrences(q, r) == Cardinality({i \in DOMAIN q : q[i] = r})

----------------------------------------------------------------------------
(* C1: in every reachable state the number of reports holding a developer *)
(* unit (granted and not yet released) is at most team_capacity.          *)
C1_CapacityInvariant == Cardinality(Holders) <= team_capacity

C1_Witness == Cardinality(Holders) = team_capacity /\ Len(waitQ) >= 2

(* C2: units are granted in the order of the requests: the sequence of    *)
(* grants is a prefix of the sequence of requests, so a report that       *)
(* requested earlier is never granted later.                              *)
C2_FifoGrants == IsPrefix(grantLog, requestLog)

C2_Witness ==
    /\ Len(grantLog) >= 3
    /\ \E r \in Reports : ready_time[r] > arrival_time[r] /\ arrival_time[r] >= 0
    /\ Len(waitQ) >= 1

C4_RequestHoldRelease ==
    \A r \in Reports :
        /\ IsPrefix(yielded[r], <<"request", "hold", "release">>)
        /\ Occurrences(activeQ, r) = (IF Holds(r) THEN 1 ELSE 0)
        /\ Occurrences(grantLog, r) <= 1
        /\ Occurrences(requestLog, r) = (IF Len(yielded[r]) >= 1 THEN 1 ELSE 0)
        /\ (Len(yielded[r]) >= 2 => Granted(r))

C4_Witness ==
    \E r \in Reports :
        /\ yielded[r] = <<"request", "hold", "release">>
        /\ ready_time[r] > arrival_time[r]
        /\ fixed_time[r] >= 0

C7_ArrivalLimits ==
    /\ key <= report_number
    /\ Cardinality(Submitted) = key
    /\ \A r \in Reports : arrival_time[r] <= max_time
    /\ \A i \in DOMAIN trace : trace[i].at <= max_time
    /\ (phase = "Completed" /\ message = "No more events" => key = report_number)

C7_Witness ==
    /\ phase = "Completed"
    /\ message = "Normal exit"
    /\ key > 1
    /\ key < report_number

(* C8 as stated: events are processed in nondecreasing timestamp order    *)
(* and events of the same timestamp in the order in which their processes *)
(* were created.                                                          *)
C8_TiesByCreationOrder ==
    \A i \in DOMAIN trace : \A j \in DOMAIN trace :
        i < j => /\ trace[i].at <= trace[j].at
                 /\ (trace[i].at = trace[j].at => trace[i].who <= trace[j].who)

(* C8 amended: the clock never decreases and events are processed in      *)
(* nondecreasing timestamp order; events of the same timestamp that were  *)
(* scheduled by activate or hold are processed in the order in which they *)
(* were scheduled, and a process reactivated by the resource (grant or    *)
(* release) is processed before every event that was already pending for  *)
(* that instant.                                                          *)
C8_EventOrder ==
    /\ \A i \in DOMAIN trace : \A j \in DOMAIN trace :
         i < j =>
           /\ trace[i].at <= trace[j].at
           /\ (trace[i].at = trace[j].at /\ ~trace[i].prior /\ ~trace[j].prior
                 => trace[i].seq < trace[j].seq)
           /\ (trace[i].at = trace[j].at /\ ~trace[i].prior /\ trace[j].prior
                 => trace[j].seq > trace[i].popped)
    /\ (trace # <<>> => now >= trace[Len(trace)].at)
    /\ \A e \in timestamps : e.at >= now

C8_Witness ==
    \E i \in DOMAIN trace : \E j \in DOMAIN trace :
        /\ i < j
        /\ trace[i].at = trace[j].at
        /\ trace[i].who > trace[j].who
        /\ trace[j].who = a_tester
        /\ trace[i].prior

C11_HoldEqualsEffort ==
    /\ \A r \in Reports :
         fixed_time[r] >= 0 => fixed_time[r] - ready_time[r] = bug_effort
    /\ \A i \in DOMAIN grantLog :
         (i > 1 /\ ready_time[grantLog[i]] >= 0) =>
            LET r == grantLog[i]
                freed == ready_time[grantLog[i - 1]] + bug_effort
            IN  ready_time[r] = IF arrival_time[r] > freed THEN arrival_time[r]
                                ELSE freed

C11_Witness ==
    \E r \in Reports :
        /\ fixed_time[r] >= 0
        /\ ready_time[r] > arrival_time[r]
        /\ \E q \in Reports : fixed_time[q] = ready_time[r]

----------------------------------------------------------------------------
(* Properties of the replication harness. *)

RECURSIVE SumTo(_, _)
SumTo(f, i) == IF i = 0 THEN 0 ELSE f[i] + SumTo(f, i - 1)

(* C16: launch_simulation appends one entry to each of its lists per      *)
(* replication: at every moment all lists of a worker have as many        *)
(* entries as replications have been run, entry i of every list is the    *)
(* snapshot of replication i, and on return there are exactly as many as  *)
(* the max_iterations it was called with.                                 *)
C16_AlignedSequences ==
    \A w \in Workers :
        /\ replication_index[w] <= worker_inputs[w]
        /\ \A k \in OutputKeys :
             /\ Len(lists[w][k]) = replication_index[w]
             /\ \A i \in DOMAIN lists[w][k] :
                  lists[w][k][i] = Snapshot(w, i - 1)
        /\ (worker_state[w] = "returned" =>
              \A k \in OutputKeys : Len(lists[w][k]) = worker_inputs[w])

C16_Witness ==
    \E w \in Workers :
        /\ worker_state[w] = "returned"
        /\ worker_inputs[w] >= 2
        /\ \A k \in OutputKeys : Len(lists[w][k]) = worker_inputs[w]

(* C17 as stated: the sizes of the sub-batches sum to max_iterations, so  *)
(* the merged sequences returned have exactly max_iterations entries.     *)
C17_PartitionCoversAll ==
    /\ (h_pc # "start" =>
          SumTo(worker_inputs, Len(worker_inputs)) = max_iterations)
    /\ (h_pc = "returned" =>
          \A k \in OutputKeys : Len(merged[k]) = max_iterations)

(* C18: in every merged sequence the entries of a worker submitted        *)
(* earlier precede those of a worker submitted later and the entries of   *)
(* one worker keep their order, whatever order the workers returned in;   *)
(* on return every snapshot of every worker is there.                     *)
C18_SubmissionOrder ==
    \A k \in OutputKeys :
        /\ \A a \in DOMAIN merged[k] : \A b \in DOMAIN merged[k] :
             a < b => \/ merged[k][a][1] < merged[k][b][1]
                      \/ /\ merged[k][a][1] = merged[k][b][1]
                         /\ merged[k][a][2] < merged[k][b][2]
        /\ (h_pc = "returned" =>
              \A w \in Workers : \A i \in 0..(worker_inputs[w] - 1) :
                  \E a \in DOMAIN merged[k] : merged[k][a] = Snapshot(w, i))

C18_Witness ==
    /\ h_pc = "returned"
    /\ Len(finished) >= 2
    /\ finished[1] > finished[2]
    /\ \A w \in Workers : worker_inputs[w] >= 1
    /\ Len(merged["completed_per_reporter"]) >= 2

(* C19: the consolidation loop runs, and the merged sequences receive     *)
(* entries, only when every worker has returned.                          *)
C19_Barrier ==
    (\/ h_pc \in {"consolidating", "returned"}
     \/ consolidated > 0
     \/ worker_outputs # <<>>
     \/ merged # EmptyLists)
      => /\ Workers = Blocks
         /\ \A w \in Workers : worker_state[w] = "returned"

C19_Witness ==
    /\ h_pc = "consolidating"
    /\ consolidated >= 1
    /\ parallel_blocks >= 2
    /\ merged # EmptyLists

(* C20: once a worker has failed, launch_simulation_parallel never        *)
(* consolidates or returns: no worker output is taken from the pool and   *)
(* the merged sequences stay empty.                                       *)
C20_FailureIsFatal ==
    (\E w \in Workers : worker_state[w] = "failed")
      => /\ h_pc \in {"map", "raised"}
         /\ worker_outputs = <<>>
         /\ consolidated = 0
         /\ merged = EmptyLists

C20_Witness ==
    /\ h_pc = "raised"
    /\ \E w \in Workers : worker_state[w] = "failed"
    /\ \E w \in Workers :
         /\ worker_state[w] = "returned"
         /\ lists[w]["completed_per_reporter"] # <<>>

----------------------------------------------------------------------------
(* Properties of the run with the intervention stages. *)

Born == {r \in RunReports : pc[r] # "unborn"}

ReportsOf(rep) == {r \in Born : bug[r].reporter = rep}

Distorted(r) == bug[r].reported # bug[r].true

DistortedAtSubmission(r) == bug[r].submitted # bug[r].true

(* C12: with a developer-hour ceiling dev_team_bandwidth, no developer    *)
(* unit is granted once the consumed fix hours have exceeded the ceiling, *)
(* and a report that reaches the developer queue after the exhaustion     *)
(* stays in the queue, never granted and never resolved, to the end of    *)
(* the run.                                                               *)
C12_BandwidthCeiling ==
    /\ \A r \in RunReports : bug[r].hours_at_grant <= config.dev_team_bandwidth
    /\ \A r \in late :
         /\ consumed > config.dev_team_bandwidth
         /\ Occurrences(waitQ, r) = 1
         /\ r \notin Members(grantLog)
         /\ ready_time[r] = -1
         /\ fixed_time[r] = -1

C12_Witness ==
    /\ phase = "Completed"
    /\ config.dev_team_bandwidth = LowBandwidth
    /\ late # {}
    /\ \E r \in RunReports : fixed_time[r] >= 0
    /\ \E r \in late : r \in Members(waitQ)

(* C13: with the gatekeeper enabled, a report requests a developer only   *)
(* after it acquired the review resource and spent review_time in review, *)
(* and is granted one no earlier; the first report, which waits for       *)
(* nothing, is fixed review_time + effort after it arrives (2 + 5 = 7     *)
(* for a report arriving at 0).                                           *)
C13_ReviewPrecedesFix ==
    config.gatekeeper_config.enabled =>
      \A r \in RunReports :
        /\ (bug[r].requested_at >= 0 \/ r \in Members(requestLog) \/ Granted(r)) =>
             /\ bug[r].review_at >= arrival_time[r]
             /\ arrival_time[r] >= 0
             /\ bug[r].requested_at =
                  bug[r].review_at + config.gatekeeper_config.review_time
             /\ stageLog[r] = StagesOf
        /\ ready_time[r] >= 0 => ready_time[r] >= bug[r].requested_at
        /\ (r = 0 /\ fixed_time[r] >= 0) =>
             fixed_time[r] = arrival_time[r] + config.gatekeeper_config.review_time
                               + EffortOf(bug[r].reported)

C13_Witness ==
    /\ config.gatekeeper_config.enabled
    /\ config.gatekeeper_config.review_time = ReviewTime
    /\ arrival_time[0] = 0
    /\ bug[0].review_at = 0
    /\ bug[0].requested_at = ReviewTime
    /\ EffortOf(bug[0].reported) = NonSevereEffort
    /\ fixed_time[0] = ReviewTime + NonSevereEffort

C15_DistortionBound ==
    config.quota_system =>
      /\ \A rep \in Reporters :
           /\ Cardinality({r \in ReportsOf(rep) : Distorted(r)}) <= config.inflation_factor
           /\ Cardinality({r \in ReportsOf(rep) : DistortedAtSubmission(r)})
                <= config.inflation_factor
      /\ \A r \in Born :
           Cardinality({q \in ReportsOf(bug[r].reporter) :
                          q < r /\ DistortedAtSubmission(q)}) >= config.inflation_factor
             => (bug[r].submitted = bug[r].true /\ bug[r].reported = bug[r].true)

C15_Witness ==
    /\ config.quota_system
    /\ \E r \in Born :
         /\ config.strategy[bug[r].reporter] = "simple_inflate"
         /\ bug[r].true = "non_severe"
         /\ bug[r].submitted = "non_severe"
         /\ Cardinality({q \in ReportsOf(bug[r].reporter) :
                           q < r /\ DistortedAtSubmission(q)}) = config.inflation_factor

----------------------------------------------------------------------------
(* Properties of the replications of one worker. *)

(* C21: launch_simulation calls np.random.seed() once per replication, at *)
(* the top of the iteration: every run_model call starts on a stream that *)
(* was reseeded after the call before it ended, never on the state the    *)
(* previous call (or the parent process) left.                            *)
C21_ReseedPerReplication ==
    \A w \in Workers :
        /\ seeds[w] = Len(started_on[w])
                        + (IF w_pc[w] = "seeded" /\ worker_state[w] = "running"
                             THEN 1 ELSE 0)
        /\ seeds[w] <= worker_inputs[w]
        /\ \A i \in DOMAIN started_on[w] : started_on[w][i] = "fresh"
        /\ (w_pc[w] = "seeded" /\ worker_state[w] = "running") => rng[w] = "fresh"
        /\ (w_pc[w] = "loop" /\ seeds[w] > 0) => rng[w] = "used"

C21_Witness ==
    \E w \in Workers :
        /\ worker_state[w] = "returned"
        /\ seeds[w] >= 2
        /\ Len(started_on[w]) = seeds[w]
        /\ rng[w] = "used"

(* C22: nothing but the accumulator lists is carried from one replication *)
(* to the next: the count read from the monitors of replication i is what *)
(* run i resolved itself, the monitors having started empty, and no step  *)
(* of launch_simulation changes its inputs.                               *)
C22_NoCarriedState ==
    [][/\ inputs' = inputs
       /\ \A w \in DOMAIN recorded' :
            /\ Len(recorded'[w]) = replication_index'[w]
            /\ recorded'[w] = resolved_in_run'[w]]_vars

C22_Witness ==
    \E w \in Workers :
        /\ Len(recorded[w]) >= 2
        /\ resolved_in_run[w][1] >= 1
        /\ resolved_in_run[w][2] >= 1
        /\ recorded[w][2] = resolved_in_run[w][2]
        /\ inputs \in Inputs

----------------------------------------------------------------------------
(* Properties of the continuous empirical distribution. *)

InRange(d) ==
    /\ ~d.nan
    /\ Scale * MinOf(observations) * d.den <= d.num
    /\ d.num <= Scale * MaxOf(observations) * d.den

NotAbove(d, e) == ~d.nan /\ ~e.nan /\ d.num * e.den <= e.num * d.den

(* C23 as stated: construction from fewer than 3 observations fails with  *)
(* InsufficientDataError and builds no sampler; from 3 or more it         *)
(* succeeds.                                                              *)
C23_InsufficientDataError ==
    d_pc \in {"built", "raised"} =>
      IF Len(observations) < 3
        THEN /\ d_pc = "raised"
             /\ raised = "InsufficientDataError"
             /\ inverse_cdf.x = <<>>
             /\ draws = <<>>
        ELSE d_pc = "built" /\ raised = "none"

(* C23: construction from fewer than 3 observations fails with the        *)
(* built-in ValueError, builds no sampler and no variate is ever          *)
(* generated from it; from 3 or more observations it succeeds and the     *)
(* sampler is built.                                                      *)
C23_ValueError ==
    d_pc \in {"built", "raised"} =>
      IF Len(observations) < 3
        THEN /\ d_pc = "raised"
             /\ raised = "ValueError"
             /\ inverse_cdf.x = <<>>
             /\ inverse_cdf.y = <<>>
             /\ draws = <<>>
        ELSE /\ d_pc = "built"
             /\ raised = "none"
             /\ Len(inverse_cdf.x) = n_bins + 1
             /\ Len(inverse_cdf.y) = n_bins + 1

C23_Witness ==
    /\ d_pc = "raised"
    /\ Len(observations) = 2
    /\ raised = "ValueError"
    /\ inverse_cdf.x = <<>>

(* C24 as stated: for a distribution built from 3 or more observations    *)
(* every generate(u), u in [0, 1], is a value within [min(observations),  *)
(* max(observations)], and a larger u never gives a smaller value.        *)
C24_GenerateWithinRange ==
    (d_pc = "built" /\ Len(observations) >= 3) =>
      /\ \A i \in DOMAIN draws : InRange(draws[i])
      /\ \A i \in DOMAIN draws : \A j \in DOMAIN draws :
           draws[i].u <= draws[j].u => NotAbove(draws[i], draws[j])

----------------------------------------------------------------------------
(* Properties of the strategy profiles. *)

RECURSIVE Power(_, _)
Power(base, exponent) == IF exponent = 0 THEN 1 ELSE base * Power(base, exponent - 1)

(* The names of map[from], ..., map[upto - 1] with "_" between them. *)
RECURSIVE JoinedNames(_, _, _)
JoinedNames(map, from, upto) ==
    IF from >= upto THEN <<>>
    ELSE map[from].name
           \o (IF from < upto - 1 THEN <<"_">> ELSE <<>>)
           \o JoinedNames(map, from + 1, upto)

(* C25: configure_strategies_per_team changes nothing but the 'strategy'  *)
(* of the configurations: the list keeps its entries and every other      *)
(* field, a configuration already visited has the strategy strategy_map   *)
(* gives its team, one not yet visited is untouched, and on return every  *)
(* configuration has the strategy of its team.                            *)
C25_OnlyStrategyAttached ==
    p_pc \in {"configuring", "configured", "KeyError"} =>
      /\ Len(player_configuration) = Len(original_configuration)
      /\ \A i \in DOMAIN player_configuration :
           /\ [player_configuration[i] EXCEPT
                 !.strategy = original_configuration[i].strategy]
                = original_configuration[i]
           /\ i <= config_index =>
                player_configuration[i].strategy
                  = strategy_map[original_configuration[i].team]
           /\ i > config_index =>
                player_configuration[i] = original_configuration[i]
      /\ p_pc = "configured" => config_index = Len(player_configuration)

C25_Witness ==
    /\ p_pc = "configured"
    /\ Len(player_configuration) = 2
    /\ player_configuration[1].team # player_configuration[2].team
    /\ player_configuration[1].strategy # player_configuration[2].strategy
    /\ \A i \in DOMAIN player_configuration :
         /\ player_configuration[i].strategy # original_configuration[i].strategy
         /\ player_configuration[i].name = original_configuration[i].name

(* C30: get_strategy_map returns one map per strategy profile, s^t for s  *)
(* strategies and t teams, every profile exactly once; a map has the keys *)
(* 0..t-1, key i holds the strategy at position t-1-i of the profile, and *)
(* its name is the strategy names in key order joined by "_", with no     *)
(* separator at the end.  The maps are examined while get_strategy_map    *)
(* builds them and at its return (p_pc = "maps").                         *)
C30_StrategyProfiles ==
    LET s == Len(strategy_list)
        t == teams
    IN  /\ p_pc \in {"start", "profiles", "maps"} => \A j \in DOMAIN strategy_maps :
             /\ DOMAIN strategy_maps[j].map = 0..(t - 1)
             /\ \A i \in 0..(t - 1) :
                  strategy_maps[j].map[i] = strategy_profiles[j][t - i]
             /\ strategy_maps[j].name = JoinedNames(strategy_maps[j].map, 0, t)
             /\ (strategy_maps[j].name # <<>> =>
                   strategy_maps[j].name[Len(strategy_maps[j].name)] # "_")
        /\ p_pc = "maps" =>
             /\ Len(strategy_maps) = Power(s, t)
             /\ \A f \in [1..t -> 1..s] :
                  Cardinality({j \in DOMAIN strategy_maps :
                                 \A i \in 0..(t - 1) :
                                    strategy_maps[j].map[i] = strategy_list[f[t - i]]}) = 1

C30_Witness ==
    /\ p_pc = "maps"
    /\ Len(strategy_list) = 2
    /\ teams = 3
    /\ Len(strategy_maps) = 8
    /\ \E j \in DOMAIN strategy_maps :
         /\ strategy_maps[j].map[0] # strategy_maps[j].map[2]
         /\ strategy_maps[j].map[0] = strategy_profiles[j][3]
         /\ Len(strategy_maps[j].name)
              = Len(strategy_maps[j].map[0].name) + Len(strategy_maps[j].map[1].name)
                  + Len(strategy_maps[j].map[2].name) + 2

----------------------------------------------------------------------------
(* Properties of the source and of the developer resource in main's run. *)

SourceEvents == SelectSeq(trace, LAMBDA e : e.who = a_tester)

(* C27: while a report waits in the developer queue every unit is held,   *)
(* and a release with a non-empty queue hands the unit to the head of the *)
(* queue in the same step: the head holds it and is reactivated at the    *)
(* instant of the release.                                                *)
C27_WorkConserving ==
    [][/\ waitQ' # <<>> => (n' = 0 /\ Len(activeQ') = team_capacity)
       /\ \A r \in Reports :
            (yielded'[r] = Append(yielded[r], "release") /\ waitQ # <<>>) =>
               LET head == Head(waitQ) IN
               /\ n' = 0
               /\ head \in Members(activeQ')
               /\ head \notin Members(waitQ')
               /\ grantLog' = Append(grantLog, head)
               /\ \E e \in timestamps' : e.who = head /\ e.at = now']_vars

C27_Witness ==
    /\ waitQ # <<>>
    /\ n = 0
    /\ Len(grantLog) >= 2
    /\ \E r \in Reports : Released(r) /\ ready_time[grantLog[2]] = fixed_time[r]
    /\ fixed_time[grantLog[1]] > arrival_time[grantLog[2]]

(* C28: the source never requests or waits for the developer resource:    *)
(* whenever its event is the next one it runs, whatever the resource's    *)
(* state; report k is activated by the source's (k+1)-th step and arrives *)
(* at the time of that step, the first at 0, in index order with          *)
(* nondecreasing arrival times.                                           *)
C28_OpenLoopArrivals ==
    /\ a_tester \notin Members(requestLog) \cup Members(grantLog)
                         \cup Members(waitQ) \cup Members(activeQ)
    /\ (Looping /\ HasNext /\ NextEv.who = a_tester /\ WithinHorizon(NextEv))
         => ENABLED (start_reporting \/ stop_reporting)
    /\ {r \in Reports : pc[r] # "unborn"} = 0..(key - 1)
    /\ \A r \in Reports :
         arrival_time[r] >= 0 =>
           /\ r < key
           /\ arrival_time[r] = SourceEvents[r + 1].at
           /\ r = 0 => arrival_time[r] = 0
           /\ \A q \in Reports :
                q < r => (arrival_time[q] >= 0 /\ arrival_time[q] <= arrival_time[r])

C28_Witness ==
    /\ key >= 3
    /\ arrival_time[0] = 0
    /\ arrival_time[2] > arrival_time[1]
    /\ arrival_time[2] < fixed_time[0]
    /\ waitQ # <<>>
    /\ n = 0

(* C29: every report holds its unit for the 12 that start_reporting       *)
(* passes to arrive, the same for all reports; the bug_effort of main,    *)
(* 10, is the hold or the completion time of no report.                   *)
C29_EffortIsTwelve ==
    /\ bug_effort = start_reporting_bug_effort
    /\ \A r \in Reports :
         /\ fixed_time[r] >= 0 =>
              /\ fixed_time[r] = ready_time[r] + start_reporting_bug_effort
              /\ fixed_time[r] # ready_time[r] + main_bug_effort
         /\ (pc[r] = "holding" /\ Looping) =>
              \E e \in timestamps :
                 e.who = r /\ e.at = ready_time[r] + start_reporting_bug_effort

C29_Witness ==
    /\ Cardinality({r \in Reports : fixed_time[r] >= 0}) >= 2
    /\ \A r \in Reports :
         fixed_time[r] >= 0 => fixed_time[r] - ready_time[r] = start_reporting_bug_effort
    /\ \E r \in Reports : pc[r] = "holding" /\ Looping

----------------------------------------------------------------------------
(* C26: when a strategy returns a value that is no priority class the run *)
(* fails at that step with StrategyContractError and takes no further     *)
(* step: no report is created with the value, so no report in the         *)
(* developer queue, holding a developer or counted for a reporter or a    *)
(* priority has a reported priority outside the priority classes.         *)
C26_StrategyContract ==
    /\ \A r \in RunReports :
         (\/ pc[r] # "unborn"
          \/ r \in Members(requestLog) \cup Members(waitQ) \cup Members(activeQ)
          \/ r < key)
           => /\ bug[r].submitted \in {"non_severe", "severe"}
              /\ bug[r].reported \in {"non_severe", "severe"}
    /\ \A r \in RunReports : bug[r].reported \in {"none", "non_severe", "severe"}
    /\ \A rep \in Reporters :
         sent[rep] = Cardinality({r \in RunReports :
                                    bug[r].reporter = rep /\ bug[r].reported # "none"})
    /\ (phase = "Failed") = (message = "StrategyContractError")
    /\ phase = "Failed" => (~ENABLED RunNext /\ \E rep \in Reporters :
                               config.strategy[rep] = "malformed")

C26_Witness ==
    /\ phase = "Failed"
    /\ message = "StrategyContractError"
    /\ key >= 1
    /\ \E r \in RunReports : pc[r] \in {"dev_waiting", "fixing", "reviewing"}
    /\ \E r \in RunReports : r >= key /\ bug[r].reported = "none"

====
